---- MODULE Spec2Model ----
(***************************************************************************)
(* Model of backend/routes/InvestmentRoutes.js: the exchange-rate cache,   *)
(* the crypto and stock price resolvers, calculateMetrics and the create,  *)
(* update, bulk-refresh and delete handlers over the Investment            *)
(* collection.  Every `await` of the source is a point where another       *)
(* in-flight request may run, so each handler is a sequence of steps, one  *)
(* per awaited response.                                                   *)
(*                                                                         *)
(* Nullable numbers (a price, a rate, a timestamp) are <<>> for            *)
(* null/undefined and <<n>> for the number n.  Missing strings are the     *)
(* string "undefined".  Quantities, prices and rates are small integers.   *)
(***************************************************************************)
EXTENDS Integers, Sequences, FiniteSets, TLC

\* ------------------------------------------------------------------ bounds
MaxTicks == 2

\* ------------------------------------------------------- program constants
TTL == 3600000
Retries == 3
BackoffUnit == 1000

\* The clock advances in steps of half the TTL.
TickMs == TTL \div 2

\* Requests that can be in flight at the same time.
Procs == {1, 2}

\* ------------------------------------------------------------ value space
Null == <<>>
Undefined == "undefined"

Some(n) == <<n>>
Val(v) == v[1]

\* A truthiness for which 0 counts as true.
TruthyNonNull(v) == v # Null

\* JavaScript truthiness of a nullable number: null, undefined and 0 are falsy.
Truthy(v) == v # Null /\ Val(v) # 0

\* `x || null` on a nullable number.
OrNull(v) == IF Truthy(v) THEN v ELSE Null

\* `!s` on a string-or-undefined.
Missing(s) == s = Undefined \/ s = ""

\* What the external sources can answer.
RawRates == {Null, Some(83)}
RawPrices == {Null, Some(0), Some(-5), Some(50)}

\* Request bodies: two complete ones that differ in every field, one of a type
\* without a price source, two with a quantity that does not parse to a positive
\* number, and one for each missing required field.
BodyA == [name |-> "Bitcoin", symbol |-> Undefined, quantity |-> "2",
          type |-> "Crypto", notes |-> Undefined, tags |-> <<>>]
BodyB == [name |-> "Apple", symbol |-> "AAPL", quantity |-> "3",
          type |-> "Stock", notes |-> "memo", tags |-> <<"tech">>]

Bodies ==
  {BodyA, BodyB,
   [BodyA EXCEPT !.type = "Other"],
   [BodyA EXCEPT !.quantity = "abc"],
   [BodyB EXCEPT !.quantity = "0"],
   [BodyA EXCEPT !.name = Undefined],
   [BodyB EXCEPT !.quantity = Undefined],
   [BodyA EXCEPT !.type = Undefined]}

NoBody == [name |-> Undefined, symbol |-> Undefined, quantity |-> Undefined,
           type |-> Undefined, notes |-> Undefined, tags |-> <<>>]

\* parseFloat on the quantity strings of RawQuantities.
parseFloat(s) ==
  CASE s = "2" -> [nan |-> FALSE, val |-> 2]
    [] s = "3" -> [nan |-> FALSE, val |-> 3]
    [] s = "0" -> [nan |-> FALSE, val |-> 0]
    [] s = "-1" -> [nan |-> FALSE, val |-> -1]
    [] OTHER -> [nan |-> TRUE, val |-> 0]

\* `null` as a document (findById / findByIdAndUpdate on an unknown id).
NullDoc == [isNull |-> TRUE]

\* ------------------------------------------------------------------- state
VARIABLES
  store,     \* the Investment collection: _id -> document
  nextId,    \* the next _id the collection assigns
  cache,     \* usdToInrCache
  now,       \* Date.now()
  apiKey,    \* process.env.ALPHA_VANTAGE_API_KEY is set
  proc       \* per in-flight request: handler position and locals

vars == <<store, nextId, cache, now, apiKey, proc>>

\* ------------------------------------------------------- pure computations
\* calculateMetrics; the percentage is kept as the exact fraction num/den.
calculateMetrics(currentPrice, purchasePrice, quantity) ==
  [profitLoss |-> (currentPrice - purchasePrice) * quantity,
   profitLossPercentage |-> [num |-> (currentPrice - purchasePrice) * 100,
                             den |-> purchasePrice]]

\* Amount without the `|| 1`: a missing rate multiplies as 0.
AmountNoFallback(price, quantity, usdToINR) ==
  price * quantity * (IF Truthy(usdToINR) THEN Val(usdToINR) ELSE 0)

\* price * quantity * (usdToINR || 1)
Amount(price, quantity, usdToINR) ==
  price * quantity * (IF Truthy(usdToINR) THEN Val(usdToINR) ELSE 1)

\* `stored.purchasePrice || price`
PurchaseOr(purchasePrice, price) ==
  IF purchasePrice # 0 THEN purchasePrice ELSE price

\* The cache test with the age comparison the wrong way round.
CacheFreshInverted ==
  /\ Truthy(cache.rate)
  /\ cache.timestamp # Null
  /\ now - Val(cache.timestamp) > TTL

\* The cache test of getUSDtoINR.
CacheFresh ==
  /\ Truthy(cache.rate)
  /\ cache.timestamp # Null
  /\ now - Val(cache.timestamp) < TTL

\* Investment.find(): the documents in _id order.
RECURSIVE FindAll(_, _)
FindAll(s, from) ==
  IF from >= nextId THEN <<>>
  ELSE IF from \in DOMAIN s THEN <<s[from]>> \o FindAll(s, from + 1)
  ELSE FindAll(s, from + 1)

\* ------------------------------------------------------------ locals
\* The locals of a handler (body .. updates), its answer (status, message,
\* result) and what it has done so far:
\*   rateAt, rateRes, rateReqs  when its getUSDtoINR call began, how it ended
\*                              ("hit": from the cache, "stored": a rate was
\*                              fetched and stored, "empty": the answer carried
\*                              no INR rate, "failed": the request failed) and
\*                              the requests it issued to the rate source
\*   resolutions                price resolutions begun
\*   priceReqs, got, waits      requests issued to the market-data source in
\*                              the current resolution, the answer that ended
\*                              it with a quote, and the backoff waits (ms)
\*   okIds                      holdings a bulk refresh has updated in the store
NoQuote == [res |-> 0, attempt |-> 0, price |-> Null]

Idle ==
  [pc |-> "idle", op |-> "none", body |-> NoBody, id |-> 0,
   usdToINR |-> Null, price |-> Null, i |-> 0, amount |-> 0,
   fields |-> NullDoc, investments |-> <<>>, idx |-> 0, updates |-> <<>>,
   status |-> 0, message |-> "", result |-> <<>>,
   rateAt |-> Null, rateRes |-> "none", rateReqs |-> 0,
   resolutions |-> 0, priceReqs |-> 0, got |-> NoQuote, waits |-> <<>>,
   okIds |-> <<>>]

\* res.status(status).json({message, ...}): what stays is the answer and the
\* request counts.
Done(l, status, message, result) ==
  [Idle EXCEPT !.pc = "done", !.op = l.op,
               !.status = status, !.message = message, !.result = result,
               !.rateAt = l.rateAt, !.rateRes = l.rateRes,
               !.rateReqs = l.rateReqs, !.priceReqs = l.priceReqs,
               !.okIds = l.okIds]


\* The holding a bulk refresh is working on.
Current(l) == l.investments[l.idx]

\* NewInvestment with the total cost stored as the purchase price.
NewInvestmentTotalCost(body, price, quantityNum, amount) ==
  [_id |-> 0,
   name |-> body.name,
   symbol |-> IF Missing(body.symbol) THEN body.name ELSE body.symbol,
   quantity |-> quantityNum,
   type |-> body.type,
   amount |-> amount,
   purchasePrice |-> price * quantityNum,
   currentPrice |-> price,
   profitLoss |-> calculateMetrics(price, price, quantityNum).profitLoss,
   profitLossPercentage |->
     calculateMetrics(price, price, quantityNum).profitLossPercentage,
   lastUpdated |-> now,
   notes |-> body.notes,
   tags |-> body.tags]

\* The document built by `new Investment({...})` in POST /.
NewInvestment(body, price, quantityNum, amount) ==
  [_id |-> 0,
   name |-> body.name,
   symbol |-> IF Missing(body.symbol) THEN body.name ELSE body.symbol,
   quantity |-> quantityNum,
   type |-> body.type,
   amount |-> amount,
   purchasePrice |-> price,
   currentPrice |-> price,
   profitLoss |-> calculateMetrics(price, price, quantityNum).profitLoss,
   profitLossPercentage |->
     calculateMetrics(price, price, quantityNum).profitLossPercentage,
   lastUpdated |-> now,
   notes |-> body.notes,
   tags |-> body.tags]

\* UpdateFields that also resets the purchase price to the new price.
UpdateFieldsRebased(body, price, quantityNum, amount, existing) ==
  [name |-> body.name,
   symbol |-> IF Missing(body.symbol) THEN body.name ELSE body.symbol,
   quantity |-> quantityNum,
   type |-> body.type,
   amount |-> amount,
   purchasePrice |-> price,
   currentPrice |-> price,
   profitLoss |->
     calculateMetrics(price, PurchaseOr(existing.purchasePrice, price),
                      quantityNum).profitLoss,
   profitLossPercentage |->
     calculateMetrics(price, PurchaseOr(existing.purchasePrice, price),
                      quantityNum).profitLossPercentage,
   lastUpdated |-> now,
   notes |-> body.notes,
   tags |-> body.tags]

\* The update object PUT /:id hands to findByIdAndUpdate.
UpdateFields(body, price, quantityNum, amount, existing) ==
  [name |-> body.name,
   symbol |-> IF Missing(body.symbol) THEN body.name ELSE body.symbol,
   quantity |-> quantityNum,
   type |-> body.type,
   amount |-> amount,
   currentPrice |-> price,
   profitLoss |->
     calculateMetrics(price, PurchaseOr(existing.purchasePrice, price),
                      quantityNum).profitLoss,
   profitLossPercentage |->
     calculateMetrics(price, PurchaseOr(existing.purchasePrice, price),
                      quantityNum).profitLossPercentage,
   lastUpdated |-> now,
   notes |-> body.notes,
   tags |-> body.tags]

\* RefreshFields valuing each holding with the rate the cache holds by then.
RefreshFieldsCacheRate(investment, price, usdToINR) ==
  [amount |-> Amount(price, investment.quantity, cache.rate),
   currentPrice |-> price,
   profitLoss |->
     calculateMetrics(price, PurchaseOr(investment.purchasePrice, price),
                      investment.quantity).profitLoss,
   profitLossPercentage |->
     calculateMetrics(price, PurchaseOr(investment.purchasePrice, price),
                      investment.quantity).profitLossPercentage,
   lastUpdated |-> now]

\* RefreshFields that also resets the purchase price to the new price.
RefreshFieldsRebased(investment, price, usdToINR) ==
  [amount |-> Amount(price, investment.quantity, usdToINR),
   purchasePrice |-> price,
   currentPrice |-> price,
   profitLoss |->
     calculateMetrics(price, PurchaseOr(investment.purchasePrice, price),
                      investment.quantity).profitLoss,
   profitLossPercentage |->
     calculateMetrics(price, PurchaseOr(investment.purchasePrice, price),
                      investment.quantity).profitLossPercentage,
   lastUpdated |-> now]

\* The update object GET /update-prices hands to findByIdAndUpdate.
RefreshFields(investment, price, usdToINR) ==
  [amount |-> Amount(price, investment.quantity, usdToINR),
   currentPrice |-> price,
   profitLoss |->
     calculateMetrics(price, PurchaseOr(investment.purchasePrice, price),
                      investment.quantity).profitLoss,
   profitLossPercentage |->
     calculateMetrics(price, PurchaseOr(investment.purchasePrice, price),
                      investment.quantity).profitLossPercentage,
   lastUpdated |-> now]

\* findByIdAndUpdate(id, fields, {new: true}) on an existing document.
Merge(doc, fields) ==
  [k \in DOMAIN doc |-> IF k \in DOMAIN fields THEN fields[k] ELSE doc[k]]

\* ------------------------------------------- price resolution and what follows
\* These run without an await in between, so they are one step: the price
\* resolution is entered (StartResolve), it yields a quote (Quote) or throws
\* (Throw), and a bulk refresh moves on to its next holding (NextHolding).
RECURSIVE StartResolve(_, _), Quote(_, _), Throw(_, _), NextHolding(_)

\* A placeholder price that passes the truthiness test.
InitialPriceOne == Some(1)

\* `let priceData = { price: 0 }`: the price before any source is asked.
InitialPrice == Some(0)

\* The key test left out.
KeyConfiguredAlways == TRUE

\* The last-attempt test one iteration late.
LastAttemptLate(i) == i = Retries

\* `if (i === retries - 1) throw error` of getCryptoPrice.
LastAttempt(i) == i = Retries - 1

\* `if (!apiKey)` of getStockPrice.
KeyConfigured == apiKey

\* The `if (type === 'Crypto') ... else if (type === 'Stock') ...` dispatch,
\* with the first request of getCryptoPrice / the key test of getStockPrice.
StartResolve(l, type) ==
  LET r == [l EXCEPT !.resolutions = @ + 1, !.priceReqs = 0, !.i = 0,
                     !.waits = <<>>, !.got = NoQuote, !.price = InitialPrice]
  IN  IF type = "Crypto"
        THEN [r EXCEPT !.pc = "crypto", !.priceReqs = 1]
      ELSE IF type = "Stock"
        THEN IF KeyConfigured
               THEN [r EXCEPT !.pc = "stock", !.priceReqs = 1]
               ELSE Throw(r, "Alpha Vantage API key not configured")
      ELSE Quote(r, InitialPrice)

\* priceData is known: the rest of the handler up to its next await.
Quote(l, price) ==
  LET r == [l EXCEPT !.price = price]
      q == parseFloat(l.body.quantity)
  IN  IF l.op = "refresh"
        THEN IF Truthy(price)
               THEN [r EXCEPT !.pc = "refreshUpdate",
                              !.fields = RefreshFields(Current(l), Val(price),
                                                       l.usdToINR)]
               ELSE NextHolding(r)
      ELSE IF ~Truthy(price)
        THEN Done(r, 404, "price not found", <<>>)
      ELSE IF q.nan \/ q.val <= 0
        THEN Done(r, 400, "Invalid quantity", <<>>)
      ELSE IF l.op = "create"
        THEN [r EXCEPT !.pc = "save",
                       !.amount = Amount(Val(price), q.val, l.usdToINR),
                       !.fields = NewInvestment(l.body, Val(price), q.val,
                                    Amount(Val(price), q.val, l.usdToINR))]
      ELSE [r EXCEPT !.pc = "findById",
                     !.amount = Amount(Val(price), q.val, l.usdToINR)]

\* The price resolution threw: the handler's catch answers 500; the bulk
\* refresh's inner catch logs and goes on with the next holding.
Throw(l, err) ==
  IF l.op = "refresh" THEN NextHolding(l) ELSE Done(l, 500, err, <<>>)

\* `for (const investment of investments)`: the next iteration, or the answer.
NextHolding(l) ==
  IF l.idx >= Len(l.investments)
    THEN Done(l, 200, "Prices updated successfully", l.updates)
    ELSE StartResolve([l EXCEPT !.idx = @ + 1, !.fields = NullDoc],
                      l.investments[l.idx + 1].type)

\* getUSDtoINR returned `rate`: the handler goes on to its price resolution.
AfterRate(l, rate) ==
  LET r == [l EXCEPT !.usdToINR = rate]
  IN  IF l.op = "refresh" THEN NextHolding(r) ELSE StartResolve(r, l.body.type)

\* `await getUSDtoINR()`: a fresh cache answers at once, otherwise a request
\* to the rate source is issued and awaited.
CallGetRate(l) ==
  IF CacheFresh
    THEN AfterRate([l EXCEPT !.rateAt = Some(now), !.rateRes = "hit"],
                   cache.rate)
    ELSE [l EXCEPT !.pc = "rate", !.rateAt = Some(now), !.rateReqs = @ + 1]

\* ------------------------------------------------------------------ actions
\* A request arrives and waits for its handler to run.  Each slot serves one
\* request.
Receive(p, op, id, body) ==
  /\ proc[p].pc = "idle"
  /\ proc' = [proc EXCEPT ![p] =
       [Idle EXCEPT !.pc = "received", !.op = op, !.id = id, !.body = body]]
  /\ UNCHANGED <<store, nextId, cache, now, apiKey>>

\* `!name || !quantity || !type`
MissingFields(body) ==
  Missing(body.name) \/ Missing(body.quantity) \/ Missing(body.type)

\* POST /: validation of the required fields, then getUSDtoINR.
CreateStart(p) ==
  /\ proc[p].pc = "received" /\ proc[p].op = "create"
  /\ proc' = [proc EXCEPT ![p] =
       IF MissingFields(@.body)
         THEN Done(@, 400, "Please provide all required fields", <<>>)
         ELSE CallGetRate(@)]
  /\ UNCHANGED <<store, nextId, cache, now, apiKey>>

\* PUT /:id: the same validation and resolution as POST /.
UpdateStart(p) ==
  /\ proc[p].pc = "received" /\ proc[p].op = "update"
  /\ proc' = [proc EXCEPT ![p] =
       IF MissingFields(@.body)
         THEN Done(@, 400, "Please provide all required fields", <<>>)
         ELSE CallGetRate(@)]
  /\ UNCHANGED <<store, nextId, cache, now, apiKey>>

\* GET /update-prices: `await Investment.find()` is issued.
RefreshStart(p) ==
  /\ proc[p].pc = "received" /\ proc[p].op = "refresh"
  /\ proc' = [proc EXCEPT ![p] = [@ EXCEPT !.pc = "find"]]
  /\ UNCHANGED <<store, nextId, cache, now, apiKey>>

\* Investment.find() answers (or fails: the outer catch answers 500).
FindDone(p, ok) ==
  /\ proc[p].pc = "find"
  /\ proc' = [proc EXCEPT ![p] =
       IF ok THEN CallGetRate([@ EXCEPT !.investments = FindAll(store, 1)])
             ELSE Done(@, 500, "find failed", <<>>)]
  /\ UNCHANGED <<store, nextId, cache, now, apiKey>>

\* The catch of getUSDtoINR answering null whatever the cache holds.
CatchRateNull == Null

\* `return usdToInrCache.rate || null` in the catch of getUSDtoINR.
CatchRate == OrNull(cache.rate)

\* The rate source answers the request of getUSDtoINR.  `inr` is
\* data.rates.INR; an error is a failed request or a payload without `rates`.
RateResponse(p, ok, inr) ==
  /\ proc[p].pc = "rate"
  /\ IF ok
       THEN /\ cache' = [rate |-> inr, timestamp |-> Some(now)]
            /\ proc' = [proc EXCEPT ![p] =
                 AfterRate([@ EXCEPT !.rateRes =
                              IF Truthy(inr) THEN "stored" ELSE "empty"],
                           OrNull(inr))]
       ELSE /\ cache' = cache
            /\ proc' = [proc EXCEPT ![p] =
                 AfterRate([@ EXCEPT !.rateRes = "failed"], CatchRate)]
  /\ UNCHANGED <<store, nextId, now, apiKey>>

\* The same wait after every failed attempt.
BackoffConstant(i) == BackoffUnit

\* `1000 * (i + 1)`: the wait after the failure of attempt i (from 0).
Backoff(i) == BackoffUnit * (i + 1)

\* CoinGecko answers attempt i of getCryptoPrice.  `usd` is data[coinId]?.usd.
CryptoResponse(p, ok, usd) ==
  /\ proc[p].pc = "crypto"
  /\ proc' = [proc EXCEPT ![p] =
       IF ok THEN Quote([@ EXCEPT !.got = [res |-> proc[p].resolutions,
                                           attempt |-> proc[p].i + 1,
                                           price |-> OrNull(usd)]],
                        OrNull(usd))
       ELSE IF LastAttempt(@.i) THEN Throw(@, "request failed")
       ELSE [@ EXCEPT !.pc = "backoff",
                      !.waits = Append(@, Backoff(proc[p].i))]]
  /\ UNCHANGED <<store, nextId, cache, now, apiKey>>

\* The backoff timer fires: the loop issues its next attempt.
BackoffDone(p) ==
  /\ proc[p].pc = "backoff"
  /\ proc' = [proc EXCEPT ![p] =
       [@ EXCEPT !.pc = "crypto", !.i = @ + 1, !.priceReqs = @ + 1]]
  /\ UNCHANGED <<store, nextId, cache, now, apiKey>>

\* Alpha Vantage answers getStockPrice: the request failed, the payload has an
\* 'Error Message', it has no 'Global Quote' or one without '10. change
\* percent' (the property access throws a TypeError), or it is a quote.
StockKinds == {"request failed", "Error Message", "TypeError", "quote"}

StockResponse(p, kind, price) ==
  /\ proc[p].pc = "stock"
  /\ proc' = [proc EXCEPT ![p] =
       IF kind = "quote"
         THEN Quote([@ EXCEPT !.got = [res |-> proc[p].resolutions,
                                       attempt |-> 1,
                                       price |-> OrNull(price)]],
                    OrNull(price))
         ELSE Throw(@, kind)]
  /\ UNCHANGED <<store, nextId, cache, now, apiKey>>

\* newInvestment.save() answers.
SaveDone(p, ok) ==
  /\ proc[p].pc = "save"
  /\ IF ok
       THEN LET saved == [proc[p].fields EXCEPT !._id = nextId]
            IN  /\ store' = [k \in DOMAIN store \cup {nextId} |->
                               IF k = nextId THEN saved ELSE store[k]]
                /\ nextId' = nextId + 1
                /\ proc' = [proc EXCEPT ![p] = Done(@, 200, "", <<saved>>)]
       ELSE /\ UNCHANGED <<store, nextId>>
            /\ proc' = [proc EXCEPT ![p] = Done(@, 500, "save failed", <<>>)]
  /\ UNCHANGED <<cache, now, apiKey>>

\* Investment.findById(req.params.id) answers in PUT /:id.
FindByIdDone(p, ok) ==
  /\ proc[p].pc = "findById"
  /\ LET l == proc[p]
         q == parseFloat(l.body.quantity)
     IN  proc' = [proc EXCEPT ![p] =
           IF ~ok THEN Done(l, 500, "findById failed", <<>>)
           ELSE IF l.id \notin DOMAIN store
             THEN Done(l, 404, "Investment not found", <<>>)
           ELSE [l EXCEPT !.pc = "findByIdAndUpdate",
                          !.fields = UpdateFields(l.body, Val(l.price), q.val,
                                                  l.amount, store[l.id])]]
  /\ UNCHANGED <<store, nextId, cache, now, apiKey>>

\* Investment.findByIdAndUpdate answers in PUT /:id.
UpdateDone(p, ok) ==
  /\ proc[p].pc = "findByIdAndUpdate"
  /\ LET l == proc[p]
     IN  IF ~ok
           THEN /\ store' = store
                /\ proc' = [proc EXCEPT ![p] =
                              Done(l, 500, "findByIdAndUpdate failed", <<>>)]
         ELSE IF l.id \in DOMAIN store
           THEN /\ store' = [store EXCEPT ![l.id] = Merge(@, l.fields)]
                /\ proc' = [proc EXCEPT ![p] =
                              Done(l, 200, "", <<Merge(store[l.id], l.fields)>>)]
         ELSE /\ store' = store
              /\ proc' = [proc EXCEPT ![p] = Done(l, 200, "", <<NullDoc>>)]
  /\ UNCHANGED <<nextId, cache, now, apiKey>>

\* Investment.findByIdAndUpdate answers for the current holding of a bulk
\* refresh; its result is pushed on `updates`; a failure is caught and logged.
RefreshUpdateDone(p, ok) ==
  /\ proc[p].pc = "refreshUpdate"
  /\ LET l == proc[p]
         id == Current(l)._id
     IN  IF ~ok
           THEN /\ store' = store
                /\ proc' = [proc EXCEPT ![p] = NextHolding(l)]
         ELSE IF id \in DOMAIN store
           THEN /\ store' = [store EXCEPT ![id] = Merge(@, l.fields)]
                /\ proc' = [proc EXCEPT ![p] = NextHolding(
                     [l EXCEPT !.updates = Append(@, Merge(store[id], l.fields)),
                               !.okIds = Append(@, id)])]
         ELSE /\ store' = store
              /\ proc' = [proc EXCEPT ![p] = NextHolding(
                   [l EXCEPT !.updates = Append(@, NullDoc)])]
  /\ UNCHANGED <<nextId, cache, now, apiKey>>

\* DELETE /:id: findByIdAndDelete and the answer.
Delete(p, ok) ==
  /\ proc[p].pc = "received" /\ proc[p].op = "delete"
  /\ LET l == proc[p]
         id == l.id
     IN  IF ~ok
           THEN /\ store' = store
                /\ proc' = [proc EXCEPT ![p] =
                              Done(l, 500, "findByIdAndDelete failed", <<>>)]
         ELSE IF id \in DOMAIN store
           THEN /\ store' = [k \in DOMAIN store \ {id} |-> store[k]]
                /\ proc' = [proc EXCEPT ![p] =
                              Done(l, 200, "Investment removed", <<store[id]>>)]
         ELSE /\ store' = store
              /\ proc' = [proc EXCEPT ![p] =
                            Done(l, 404, "Investment not found", <<>>)]
  /\ UNCHANGED <<nextId, cache, now, apiKey>>

\* Time passes.  A clock step is half an hour and a request is answered within
\* one step, so the clock moves between requests.
Tick ==
  /\ now < MaxTicks * TickMs
  /\ \A p \in Procs : proc[p].pc \in {"idle", "done"}
  /\ \E p \in Procs : proc[p].pc = "done"
  /\ \E p \in Procs : proc[p].pc = "idle"
  /\ now' = now + TickMs
  /\ UNCHANGED <<store, nextId, cache, apiKey, proc>>

\* ------------------------------------------------------------ specification
\* The collection outlives the process: at start it holds what earlier runs
\* created (here: nothing, or a crypto and a stock holding, each as POST / wrote
\* it at price 60 with no exchange rate available).
Seeded(body, id) ==
  [NewInvestment(body, 60, parseFloat(body.quantity).val,
                 Amount(60, parseFloat(body.quantity).val, Null))
     EXCEPT !._id = id]

InitStores ==
  {<<>>, <<Seeded(BodyA, 1), Seeded(BodyB, 2)>>}

\* The ids a PUT or DELETE may name: the seeded ones and one more.
Ids == 1..2

Init ==
  /\ now = 0
  /\ store \in InitStores
  /\ nextId = Len(store) + 1
  /\ cache = [rate |-> Null, timestamp |-> Null]
  /\ apiKey \in BOOLEAN
  /\ proc = [p \in Procs |-> Idle]

\* The steps of a request that has arrived.
Step(p) ==
  \/ CreateStart(p)
  \/ UpdateStart(p)
  \/ RefreshStart(p)
  \/ \E ok \in BOOLEAN : Delete(p, ok)
  \/ \E ok \in BOOLEAN : FindDone(p, ok)
  \/ \E ok \in BOOLEAN, inr \in RawRates : RateResponse(p, ok, inr)
  \/ \E ok \in BOOLEAN, usd \in RawPrices : CryptoResponse(p, ok, usd)
  \/ BackoffDone(p)
  \/ \E kind \in StockKinds, price \in RawPrices : StockResponse(p, kind, price)
  \/ \E ok \in BOOLEAN : SaveDone(p, ok)
  \/ \E ok \in BOOLEAN : FindByIdDone(p, ok)
  \/ \E ok \in BOOLEAN : UpdateDone(p, ok)
  \/ \E ok \in BOOLEAN : RefreshUpdateDone(p, ok)

\* A request arrives.
Arrive(p) ==
  \/ \E body \in Bodies : Receive(p, "create", 0, body)
  \/ \E id \in Ids, body \in Bodies : Receive(p, "update", id, body)
  \/ Receive(p, "refresh", 0, NoBody)
  \/ \E id \in Ids : Receive(p, "delete", id, NoBody)

\* Requests served one after the other.
Next ==
  \/ \E p \in Procs : (\A q \in Procs : q < p => proc[q].pc = "done") /\ Arrive(p)
  \/ \E p \in Procs : Step(p)
  \/ Tick

\* Requests that overlap: the second arrives while the first is in flight.
NextC ==
  \/ \E p \in Procs :
       (\A q \in Procs : q < p => proc[q].pc \notin {"idle", "done"}) /\ Arrive(p)
  \/ \E p \in Procs : Step(p)

Spec == Init /\ [][Next]_vars

SpecC == Init /\ [][NextC]_vars

TypeOK ==
  /\ nextId \in 1..5
  /\ DOMAIN store \subseteq 1..(nextId - 1)
  /\ \A p \in Procs : proc[p].status \in {0, 200, 400, 404, 500}

\* ------------------------------------------------------------------ claims
\* The step by which request p is answered.
Answered(p) == proc[p].pc # "done" /\ proc'[p].pc = "done"

\* The percentage num/den is 0.
PctZero(pct) == pct.num = 0 /\ pct.den # 0

\* C1: every POST / that succeeds has performed one price resolution and
\* persists, under a new _id, a holding whose purchasePrice and currentPrice
\* both equal the resolved price and whose profitLoss and profitLossPercentage
\* are 0; the answer is that holding.
C1_CreateEntryPrice ==
  [][\A p \in Procs :
       (Answered(p) /\ proc[p].op = "create" /\ proc'[p].status = 200) =>
         LET d == proc'[p].result[1]
         IN  /\ proc[p].resolutions = 1
             /\ Truthy(proc[p].price)
             /\ d._id \notin DOMAIN store
             /\ d._id \in DOMAIN store' /\ store'[d._id] = d
             /\ d.purchasePrice = Val(proc[p].price)
             /\ d.currentPrice = Val(proc[p].price)
             /\ d.profitLoss = 0
             /\ PctZero(d.profitLossPercentage)]_vars

\* A create has succeeded at price 50 for quantity 2.
C1_Witness ==
  \E p \in Procs :
    /\ proc[p].pc = "done" /\ proc[p].op = "create" /\ proc[p].status = 200
    /\ proc[p].result[1].currentPrice = 50
    /\ proc[p].result[1].quantity = 2
    /\ proc[p].result[1]._id \in DOMAIN store

\* C2: no step changes the purchasePrice of a holding that stays in the store,
\* so after any sequence of updates it is the one set at creation; a PUT /:id
\* that answers with the updated holding has written the newly resolved price
\* and a profitLoss computed against the preserved purchasePrice.
C2_UpdateKeepsPurchasePrice ==
  [][/\ \A id \in DOMAIN store \cap DOMAIN store' :
          store'[id].purchasePrice = store[id].purchasePrice
     /\ \A p \in Procs :
          (/\ Answered(p) /\ proc[p].op = "update"
           /\ proc'[p].status = 200 /\ proc'[p].result # <<NullDoc>>) =>
            LET d == proc'[p].result[1]
            IN  /\ d._id = proc[p].id /\ d._id \in DOMAIN store
                /\ store'[d._id] = d
                /\ d.purchasePrice = store[d._id].purchasePrice
                /\ d.currentPrice = Val(proc[p].price)
                /\ d.profitLoss =
                     (d.currentPrice - d.purchasePrice) * d.quantity]_vars

\* An update has changed name, type and quantity of the seeded holding 1 and
\* priced it at 50, and its purchasePrice is still the 60 it was created at.
C2_Witness ==
  \E p \in Procs :
    /\ proc[p].pc = "done" /\ proc[p].op = "update" /\ proc[p].status = 200
    /\ proc[p].result # <<NullDoc>>
    /\ proc[p].result[1]._id = 1
    /\ proc[p].result[1].name = "Apple"
    /\ proc[p].result[1].quantity = 3
    /\ proc[p].result[1].currentPrice = 50
    /\ proc[p].result[1].purchasePrice = 60
    /\ proc[p].result[1].profitLoss = -30

\* The `updates` of a bulk refresh: its list so far, or the one it answered.
Updates(l) == IF l.pc = "done" THEN l.result ELSE l.updates

\* Request p, a bulk refresh, ends its work on a holding in this step.
RefreshStep(p) ==
  /\ proc[p].op = "refresh"
  /\ proc[p].pc \in {"crypto", "stock", "refreshUpdate"}
  /\ proc'[p] # proc[p]
  /\ proc'[p].pc # "backoff" /\ ~(proc'[p].pc = "crypto" /\ proc[p].pc = "backoff")
  /\ ~(proc[p].pc \in {"crypto", "stock"} /\ proc'[p].pc = "refreshUpdate")

\* C3: in a bulk refresh a holding whose resolution or persistence fails is
\* left unchanged and adds nothing to the returned list, every other holding is
\* written with its newly resolved price and appended, and the list answered
\* is exactly the updated holdings in iteration order.
C3_RefreshIsolation ==
  [][\A p \in Procs : RefreshStep(p) =>
       LET h == Current(proc[p])
       IN  \/ /\ proc'[p].okIds = proc[p].okIds
              /\ store' = store
              /\ Updates(proc'[p]) = proc[p].updates
           \/ /\ proc'[p].okIds = Append(proc[p].okIds, h._id)
              /\ h._id \in DOMAIN store'
              /\ store'[h._id].currentPrice = Val(proc[p].price)
              /\ Updates(proc'[p]) = Append(proc[p].updates, store'[h._id])]_vars

C5_CryptoAtMostThree ==
  /\ [](\A p \in Procs : proc[p].priceReqs <= 3)
  /\ [][\A p \in Procs :
          /\ (proc[p].pc = "backoff" /\ proc'[p] # proc[p]) =>
               /\ proc'[p].pc = "crypto"
               /\ proc'[p].priceReqs = proc[p].priceReqs + 1
          /\ (proc[p].pc = "crypto" /\ proc'[p] # proc[p]) =>
               \/ /\ proc'[p].pc = "backoff"
                  /\ proc[p].priceReqs < 3
                  /\ proc'[p].priceReqs = proc[p].priceReqs
                  /\ proc'[p].got = NoQuote
               \/ /\ proc'[p].pc \in {"save", "findById", "refreshUpdate"}
                  /\ proc'[p].got.res = proc[p].resolutions
                  /\ proc'[p].got.attempt = proc[p].priceReqs
                  /\ proc'[p].price = proc'[p].got.price
                  /\ proc'[p].priceReqs = proc[p].priceReqs
               \/ /\ proc[p].op # "refresh"
                  /\ proc'[p].pc = "done" /\ proc'[p].status \in {400, 404}
                  /\ proc'[p].priceReqs = proc[p].priceReqs
               \/ /\ proc[p].op # "refresh"
                  /\ proc[p].priceReqs = 3
                  /\ proc'[p].pc = "done" /\ proc'[p].status = 500
                  /\ proc'[p].message = "request failed"
                  /\ proc'[p].priceReqs = 3
               \/ /\ proc[p].op = "refresh"
                  /\ \/ proc'[p].resolutions > proc[p].resolutions
                     \/ proc'[p].pc = "done"]_vars

\* One create failed on all three attempts; another got 50 from its third.
C5_Witness ==
  /\ proc[1].pc = "done" /\ proc[1].op = "create" /\ proc[1].status = 500
  /\ proc[1].message = "request failed" /\ proc[1].priceReqs = 3
  /\ proc[2].pc = "save" /\ proc[2].op = "create"
  /\ proc[2].priceReqs = 3 /\ proc[2].got.attempt = 3
  /\ proc[2].price = Some(50)

\* C6: without an API key no request is made to the stock source, and a create
\* or update of a stock fails at once with the configuration error, having
\* issued no market-data request and changed nothing.
C6_StockNoKey ==
  /\ [](~apiKey => \A p \in Procs : proc[p].pc # "stock")
  /\ [][\A p \in Procs :
          (/\ ~apiKey /\ proc[p].op \in {"create", "update"}
           /\ proc[p].body.type = "Stock" /\ ~MissingFields(proc[p].body)
           /\ proc[p].pc \in {"received", "rate"}
           /\ proc'[p] # proc[p] /\ proc'[p].pc # "rate") =>
            /\ proc'[p].pc = "done" /\ proc'[p].status = 500
            /\ proc'[p].message = "Alpha Vantage API key not configured"
            /\ proc'[p].priceReqs = 0
            /\ store' = store]_vars

\* A stock create has failed with the configuration error and no request.
C6_Witness ==
  /\ ~apiKey
  /\ \E p \in Procs :
       /\ proc[p].pc = "done" /\ proc[p].op = "create"
       /\ proc[p].message = "Alpha Vantage API key not configured"
       /\ proc[p].status = 500 /\ proc[p].priceReqs = 0

\* C7: a create or update for which no price can be determined (the crypto
\* attempts all fail, the stock payload carries an error string, or the answer
\* has no price) ends with 404 and persists nothing.
C7_NoPriceIs404 ==
  [][\A p \in Procs :
       (/\ Answered(p) /\ proc[p].op \in {"create", "update"}
        /\ proc'[p].message \in {"request failed", "Error Message",
                                 "price not found"}) =>
         proc'[p].status = 404 /\ store' = store]_vars

\* `quantity` is missing or does not parse to a number greater than 0.
InvalidBody(body) ==
  \/ MissingFields(body)
  \/ parseFloat(body.quantity).nan
  \/ parseFloat(body.quantity).val <= 0

\* C8: a create or update whose name, quantity or type is missing or whose
\* quantity is not a positive number ends with 400 and changes nothing.
C8_InvalidIs400 ==
  [][\A p \in Procs :
       (/\ Answered(p) /\ proc[p].op \in {"create", "update"}
        /\ InvalidBody(proc[p].body)) =>
         proc'[p].status = 400 /\ store' = store]_vars

\* C9: no stored holding has a currentPrice or purchasePrice <= 0.
C9_StoredPricesPositive ==
  \A id \in DOMAIN store :
    store[id].currentPrice > 0 /\ store[id].purchasePrice > 0

\* The rate of the claim: the one obtained, or 1 when it is null.
RateOr1(usdToINR) == IF usdToINR = Null THEN 1 ELSE Val(usdToINR)

\* The amount and profitLoss the claim gives for document d written at the
\* resolved price with the quantity and rate of request p.
Valued(d, price, quantity, usdToINR) ==
  /\ d.currentPrice = price
  /\ d.amount = price * quantity * RateOr1(usdToINR)
  /\ d.profitLoss = (price - d.purchasePrice) * quantity
  /\ d.purchasePrice = price => d.profitLoss = 0

\* C10: every document written by a successful create, update or per-holding
\* refresh has amount = price * quantity * (rate, or 1 for a null rate) and
\* profitLoss = (price - purchasePrice) * quantity, for the price and rate the
\* request obtained and the quantity it worked with.
C10_AmountAndProfitLoss ==
  [][\A p \in Procs :
       /\ (/\ Answered(p) /\ proc[p].op \in {"create", "update"}
           /\ proc'[p].status = 200 /\ proc'[p].result # <<NullDoc>>) =>
            LET d == proc'[p].result[1]
            IN  /\ store'[d._id] = d
                /\ Valued(d, Val(proc[p].price),
                          parseFloat(proc[p].body.quantity).val,
                          proc[p].usdToINR)
       /\ (RefreshStep(p) /\ proc'[p].okIds # proc[p].okIds) =>
            LET h == Current(proc[p])
            IN  Valued(store'[h._id], Val(proc[p].price), h.quantity,
                       proc[p].usdToINR)]_vars

\* An update has written price 50 for quantity 3 at rate 83 against the
\* purchase price 60, and a create price 50 for quantity 2 with no rate.
C10_Witness ==
  \E p, q \in Procs :
    /\ proc[p].pc = "done" /\ proc[p].op = "update" /\ proc[p].status = 200
    /\ proc[p].result # <<NullDoc>>
    /\ proc[p].result[1].amount = 50 * 3 * 83
    /\ proc[p].result[1].profitLoss = -30
    /\ proc[q].pc = "done" /\ proc[q].op = "create" /\ proc[q].status = 200
    /\ proc[q].result[1].amount = 50 * 2
    /\ proc[q].result[1].profitLoss = 0

\* C11: a getUSDtoINR call that issued a request (the cache was missing or
\* expired) and whose request fails leaves usdToInrCache as it was and returns
\* the cached rate if there is one and null otherwise; a call whose request
\* succeeds stores the answered rate with the current time and returns it.
C11_RateFailureKeepsCache ==
  [][\A p \in Procs :
       (proc[p].pc = "rate" /\ proc'[p] # proc[p]) =>
         \/ /\ proc'[p].rateRes = "failed"
            /\ cache' = cache
            /\ proc'[p].pc # "done" =>
                 proc'[p].usdToINR =
                   (IF cache.rate # Null /\ Val(cache.rate) # 0
                      THEN cache.rate ELSE Null)
         \/ /\ proc'[p].rateRes \in {"stored", "empty"}
            /\ cache'.timestamp = Some(now)
            /\ proc'[p].rateRes = "stored" <=> cache'.rate # Null
            /\ proc'[p].pc # "done" => proc'[p].usdToINR = cache'.rate]_vars

\* The rate stored at time 0 has expired and the second request's fetch has
\* failed: it goes on with the stale rate and the slot still carries time 0.
C11_Witness ==
  /\ now = 3600000
  /\ cache = [rate |-> Some(83), timestamp |-> Some(0)]
  /\ proc[2].pc \in {"crypto", "stock"}
  /\ proc[2].rateRes = "failed" /\ proc[2].rateReqs = 1
  /\ proc[2].usdToINR = Some(83)

\* The fields of a holding that are not derived from its price.
OwnFields(d) ==
  [_id |-> d._id, name |-> d.name, symbol |-> d.symbol, type |-> d.type,
   quantity |-> d.quantity, purchasePrice |-> d.purchasePrice,
   notes |-> d.notes, tags |-> d.tags]

\* C12: no step of a bulk refresh adds a holding to the store or removes one,
\* and every holding has the same _id, name, symbol, type, quantity,
\* purchasePrice, notes and tags after the step as before it.
C12_RefreshTouchesPriceFieldsOnly ==
  [][\A p \in Procs :
       (proc[p].op = "refresh" /\ proc'[p] # proc[p]) =>
         /\ DOMAIN store' = DOMAIN store
         /\ nextId' = nextId
         /\ \A id \in DOMAIN store :
              OwnFields(store'[id]) = OwnFields(store[id])]_vars

\* A bulk refresh has written price 50 to both seeded holdings, which kept
\* their names, quantities and the purchase price 60.
C12_Witness ==
  \E p \in Procs :
    /\ proc[p].pc = "done" /\ proc[p].op = "refresh"
    /\ proc[p].okIds = <<1, 2>>
    /\ DOMAIN store = {1, 2}
    /\ store[1].currentPrice = 50 /\ store[2].currentPrice = 50
    /\ store[1].name = "Bitcoin" /\ store[1].quantity = 2
    /\ store[2].name = "Apple" /\ store[2].quantity = 3
    /\ store[1].purchasePrice = 60 /\ store[2].purchasePrice = 60

\* The bulk refresh p is past its getUSDtoINR call.
RateObtained(l) ==
  l.op = "refresh" /\ l.pc \in {"crypto", "backoff", "stock", "refreshUpdate"}

\* C13: a bulk refresh issues at most one request to the rate source, the rate
\* it obtained stays the same for all its holdings, and every holding it
\* updates gets amount = price * quantity * (that rate, or 1).
C13_RefreshOneRate ==
  /\ [](\A p \in Procs : proc[p].op = "refresh" => proc[p].rateReqs <= 1)
  /\ [][\A p \in Procs :
          /\ (RateObtained(proc[p]) /\ proc'[p].pc # "done") =>
               proc'[p].usdToINR = proc[p].usdToINR
          /\ RateObtained(proc[p]) => proc'[p].rateReqs = proc[p].rateReqs
          /\ (RefreshStep(p) /\ proc'[p].okIds # proc[p].okIds) =>
               LET h == Current(proc[p])
               IN  store'[h._id].amount =
                     Val(proc[p].price) * h.quantity
                       * RateOr1(proc[p].usdToINR)]_vars

\* A bulk refresh issued one rate request and valued both holdings at 83.
C13_Witness ==
  \E p \in Procs :
    /\ proc[p].pc = "done" /\ proc[p].op = "refresh"
    /\ proc[p].rateReqs = 1 /\ proc[p].okIds = <<1, 2>>
    /\ proc[p].result[1].amount = 50 * 2 * 83
    /\ proc[p].result[2].amount = 50 * 3 * 83

\* C14: at most one request to the rate source is outstanding at any time: no
\* getUSDtoINR call reads the missing or expired slot and issues a request
\* while the request of another call is in flight.
C14_OneRateRequestOutstanding ==
  Cardinality({p \in Procs : proc[p].pc = "rate"}) <= 1

\* C15: in every state each stored holding has
\* profitLoss = (currentPrice - purchasePrice) * quantity and
\* amount = currentPrice * quantity * rate for a rate an operation can have
\* used (one the rate source answers, or 1).
C15_DerivedFieldsConsistent ==
  \A id \in DOMAIN store :
    LET d == store[id]
    IN  /\ d.profitLoss = (d.currentPrice - d.purchasePrice) * d.quantity
        /\ \E r \in {1} \cup {Val(v) : v \in RawRates \ {Null}} :
             d.amount = d.currentPrice * d.quantity * r

\* C16: every element of the list a bulk refresh builds and returns is the
\* record of a holding the refresh updated in the store, one per updated
\* holding and in that order; a holding deleted in the meantime adds nothing.
C16_UpdatesAreUpdatedHoldings ==
  \A p \in Procs :
    proc[p].op = "refresh" =>
      /\ Len(Updates(proc[p])) = Len(proc[p].okIds)
      /\ \A k \in 1..Len(Updates(proc[p])) :
           /\ Updates(proc[p])[k] # NullDoc
           /\ Updates(proc[p])[k]._id = proc[p].okIds[k]

\* Attempt number proc[p].priceReqs of a create's or update's crypto
\* resolution fails in this step.
CryptoAttemptFails(p) ==
  /\ proc[p].op \in {"create", "update"} /\ proc[p].pc = "crypto"
  /\ \/ proc'[p].pc = "backoff"
     \/ proc'[p].pc = "done" /\ proc'[p].message = "request failed"

\* C17 as stated: the failure of attempt k (k = 1, 2, 3) of a crypto price
\* resolution is followed by a backoff wait of k seconds.
C17_BackoffAfterEveryFailure ==
  [][\A p \in Procs :
       CryptoAttemptFails(p) =>
         /\ proc'[p].pc = "backoff"
         /\ proc'[p].waits = Append(proc[p].waits, 1000 * proc[p].priceReqs)]_vars

\* C17 as amended: the failure of attempt 1 is followed by a wait of 1 s and
\* that of attempt 2 by a wait of 2 s; attempt k is issued only after the k - 1
\* waits before it; the failure of attempt 3 is thrown to the handler at once,
\* without a wait.
C17_BackoffBetweenAttempts ==
  /\ [](\A p \in Procs :
          /\ proc[p].pc = "crypto" =>
               proc[p].waits = [k \in 1..(proc[p].priceReqs - 1) |-> 1000 * k]
          /\ proc[p].pc = "backoff" =>
               /\ proc[p].priceReqs \in {1, 2}
               /\ proc[p].waits = [k \in 1..proc[p].priceReqs |-> 1000 * k])
  /\ [][\A p \in Procs :
          CryptoAttemptFails(p) =>
            IF proc[p].priceReqs < 3
              THEN /\ proc'[p].pc = "backoff"
                   /\ proc'[p].waits =
                        Append(proc[p].waits, 1000 * proc[p].priceReqs)
              ELSE /\ proc[p].waits = <<1000, 2000>>
                   /\ proc'[p].pc = "done" /\ proc'[p].status = 500]_vars

\* The third attempt of a crypto resolution is in flight after waits of 1 s
\* and 2 s, and an earlier create was answered 500 after three failures.
C17_Witness ==
  /\ proc[1].pc = "done" /\ proc[1].status = 500
  /\ proc[1].message = "request failed" /\ proc[1].priceReqs = 3
  /\ proc[2].pc = "crypto" /\ proc[2].waits = <<1000, 2000>>

\* C18: the divisor of every profitLossPercentage, stored or about to be
\* written by a create, update or per-holding refresh, is not 0; a stored
\* purchasePrice of 0 gives way to the resolved price, which is not 0.
C18_NoZeroDivisor ==
  /\ \A id \in DOMAIN store : store[id].profitLossPercentage.den # 0
  /\ \A p \in Procs :
       /\ proc[p].pc \in {"save", "findByIdAndUpdate", "refreshUpdate"} =>
            /\ proc[p].fields.profitLossPercentage.den # 0
            /\ Val(proc[p].price) # 0
            /\ PurchaseOr(0, Val(proc[p].price)) # 0
       /\ (proc[p].pc = "done" /\ proc[p].status = 200) =>
            \A k \in 1..Len(proc[p].result) :
              proc[p].result[k] # NullDoc =>
                proc[p].result[k].profitLossPercentage.den # 0

\* An update at price 50 has stored the percentage (50 - 60) * 100 / 60.
C18_Witness ==
  \E p \in Procs :
    /\ proc[p].pc = "done" /\ proc[p].op = "update" /\ proc[p].status = 200
    /\ proc[p].result # <<NullDoc>>
    /\ proc[p].result[1].profitLossPercentage = [num |-> -1000, den |-> 60]
    /\ proc[p].result[1]._id \in DOMAIN store
    /\ store[proc[p].result[1]._id].profitLossPercentage =
         [num |-> -1000, den |-> 60]

\* A create or update with all required fields and a type that has no price
\* source.
Unpriced(l) ==
  /\ l.op \in {"create", "update"}
  /\ ~MissingFields(l.body)
  /\ l.body.type \notin {"Stock", "Crypto"}

\* C19: a create or update whose type is neither 'Stock' nor 'Crypto' asks no
\* price source, ends with 404 and changes nothing; every stored holding has
\* type 'Stock' or 'Crypto', so a bulk refresh never meets another type.
C19_UnpricedTypeIs404 ==
  /\ [](\A id \in DOMAIN store : store[id].type \in {"Stock", "Crypto"})
  /\ [](\A p \in Procs :
          Unpriced(proc[p]) =>
            proc[p].pc \in {"received", "rate"} /\ proc[p].priceReqs = 0)
  /\ [][\A p \in Procs :
          (Unpriced(proc[p]) /\ proc'[p] # proc[p]) =>
            /\ store' = store /\ nextId' = nextId
            /\ proc'[p].priceReqs = 0
            /\ \/ proc[p].pc = "received" /\ proc'[p].pc = "rate"
               \/ proc'[p].pc = "done" /\ proc'[p].status = 404]_vars

\* A create of type 'Other' was answered 404 after its rate lookup, without a
\* request to a price source, and the store is as it began.
C19_Witness ==
  \E p \in Procs :
    /\ proc[p].pc = "done" /\ proc[p].op = "create"
    /\ proc[p].status = 404 /\ proc[p].message = "price not found"
    /\ proc[p].priceReqs = 0 /\ proc[p].rateReqs = 1
    /\ nextId = Len(store) + 1

\* C20: once a getUSDtoINR call has returned a rate (from the cache or freshly
\* stored), usdToInrCache holds a usable rate ever after and every later call
\* returns a rate.
C20_RateNeverLost ==
  \A p \in Procs :
    proc[p].rateRes \in {"hit", "stored"} =>
      /\ cache.rate # Null /\ Val(cache.rate) # 0
      /\ \A q \in Procs :
           (p < q /\ proc[q].pc \in {"crypto", "backoff", "stock", "save",
                                     "findById", "findByIdAndUpdate",
                                     "refreshUpdate"}) =>
             proc[q].usdToINR # Null
====
